---- MODULE Spec2Model ----
(***************************************************************************)
(* Model of the collaborative whiteboard: the Whiteboard component of      *)
(* src/app/page.tsx (lines 16-204) and the Whiteboard component of         *)
(* src/components/Whiteboard.tsx, together with the parts of the hosted    *)
(* backend they talk to (the drawings table, its insert change feed and    *)
(* the broadcast channel).  Every client is one browser tab that mounts    *)
(* one of the two components.                                              *)
(*                                                                         *)
(* Each handler is one action: handlers run to completion on the UI        *)
(* thread.  handleMouseUp is two actions, split at its await: the part up  *)
(* to the await (handleMouseUp) and the part after it (InsertSucceeds or   *)
(* InsertFails, which also hold what the backend does with the request).   *)
(* The request body is the buffer as it is at the release: the client      *)
(* library serialises it before any later event is handled.                *)
(*                                                                         *)
(* The canvas is its 2d context (current path, strokeStyle, lineWidth) and *)
(* the bag of the strokes painted since the pixels were last blanked; one  *)
(* stroke is one call of ctx.stroke(), which paints the whole current path *)
(* in the current style.                                                   *)
(*                                                                         *)
(* The handlers never branch on a coordinate, so the pointer of a gesture  *)
(* follows one trajectory of pairwise distinct points: a lost, repeated or *)
(* reordered point shows in every path.                                    *)
(***************************************************************************)
EXTENDS Integers, Sequences, FiniteSets, Bags

(* ---------------------------------------------------------------- bounds *)
\* longest sequence of pointer events (down + moves) of one capture
MaxPathLen == 3
\* number of insert requests issued over a run
MaxInserts == 2
\* number of stroke() calls of pointer-moves kept on one surface
MaxSurface == 2
\* clear broadcasts in flight to one client
MaxBroadcasts == 1
\* number of times the color picker or the width slider is moved over a run
MaxStyleChanges == 1

(* -------------------------------------------------------------- universe *)
Clients == {"A", "B"}

\* the clients whose user draws and picks styles; the users of the other
\* clients only watch and press Clear
Drawers == {"A"}

\* which Whiteboard a tab has mounted
Components == {"page", "components"}

\* canvas.getBoundingClientRect()
Rect == [left |-> 8, top |-> 4]

\* the k-th pointer position of a gesture, in viewport coordinates: over the
\* canvas the pointer visits (10,10), (20,10), (20,20), (30,20), ...
Position(k) ==
  [clientX |-> Rect.left + 10 * (1 + k \div 2),
   clientY |-> Rect.top  + 10 * (1 + (k - 1) \div 2)]

\* native mouse events the pointer can produce
MouseEvents == { Position(k) : k \in 1..MaxPathLen }

\* values of the color picker and of the width slider
ColorValues == {"#000000", "#ff0000"}
WidthValues == {5, 9}

\* useState('#000000'), useState(5)
InitialColor == "#000000"
InitialLineWidth == 5

\* a 2d context as the browser creates it: empty current path, black, width 1
FreshContext == [path |-> <<>>, strokeStyle |-> "#000000", lineWidth |-> 1]

VARIABLES
  mounted,       \* client -> "none" | "page" | "components": the mounted component
  isDrawing,     \* client -> BOOLEAN                 (useState isDrawing)
  color,         \* client -> color                    (useState color)
  lineWidth,     \* client -> width                    (useState lineWidth)
  currentPath,   \* client -> sequence of points       (currentPathRef.current)
  channelRef,    \* client -> "channel" | "null"       (channelRef.current, page.tsx)
  ctx,           \* client -> 2d context state of the canvas
  surface,       \* client -> bag of the strokes painted on the canvas since it was last blank
  inserts,       \* the insert requests whose await has not returned, in issue order
  drawings,      \* the rows of the backend table 'drawings', in commit order
  feed,          \* client -> set of row numbers whose INSERT notification is on its way
  clearFeed,     \* client -> number of 'clear' broadcasts on their way
  console,       \* number of console.error calls
  captured,      \* client -> coordinates of the pointer events of the capture in progress
  styleChanges   \* number of onChange events of the color and width inputs so far

vars == <<mounted, isDrawing, color, lineWidth, currentPath, channelRef, ctx,
          surface, inserts, drawings, feed, clearFeed, console, captured,
          styleChanges>>

(* ------------------------------------------------------ pure operations *)

\* getCoordinates for a MouseEvent on a mounted canvas
getCoordinates(event) ==
  [x |-> event.clientX - Rect.left, y |-> event.clientY - Rect.top]

\* whether reading obj[field] in JavaScript yields a value (not undefined)
Has(obj, field) == field \in DOMAIN obj

\* ctx.lineWidth = obj[field]: a value that is no finite positive number
\* (undefined) is ignored and the context keeps its width
SetLineWidth(context, obj, field) ==
  IF Has(obj, field) /\ obj[field] > 0
  THEN [context EXCEPT !.lineWidth = obj[field]] ELSE context

\* ctx.strokeStyle = obj[field]: a value that is no color (undefined) is ignored
SetStrokeStyle(context, obj, field) ==
  IF Has(obj, field) THEN [context EXCEPT !.strokeStyle = obj[field]] ELSE context

\* ctx.beginPath()
BeginPath(context) == [context EXCEPT !.path = <<>>]

\* ctx.moveTo(p): starts a subpath at p (always called right after beginPath)
MoveTo(context, p) == [context EXCEPT !.path = <<p>>]

\* ctx.lineTo(p): with no subpath it only ensures one at p
LineTo(context, p) == [context EXCEPT !.path = Append(@, p)]

\* ctx.stroke(): paints the whole current path in the current style
Stroke(context, surf) ==
  IF Len(context.path) >= 2
  THEN surf (+) SetToBag({[path  |-> context.path,
                            color |-> context.strokeStyle,
                            width |-> context.lineWidth]})
  ELSE surf

\* ctx.clearRect(0, 0, width, height): blanks the pixels, keeps the context
ClearRect(surf) == EmptyBag

\* the name of the width property drawPath reads from the payload
WidthField(comp) == IF comp = "page" THEN "linewidth" ELSE "lineWidth"

\* mutant of LineToAll: the loop joins the first point to the last one only
LineToEnd(context, path, i) == LineTo(context, path[Len(path)])

RECURSIVE LineToAll(_, _, _)
\* the loop  for (i = 1; i < path.length; i++) ctx.lineTo(path[i])  (i is 0-based)
LineToAll(context, path, i) ==
  IF i >= Len(path) THEN context
  ELSE LineToAll(LineTo(context, path[i + 1]), path, i + 1)

\* mutant of drawPath: a stroke already on the surface is not painted again
drawPathDedup(comp, context, surf, draw) ==
  IF ~Has(draw, "path") \/ Len(draw.path) < 2 THEN <<context, surf>>
  ELSE LET c1 == SetStrokeStyle(context, draw, "color")
           c2 == SetLineWidth(c1, draw, WidthField(comp))
           c3 == MoveTo(BeginPath(c2), draw.path[1])
           c4 == LineToAll(c3, draw.path, 1)
       IN  IF Stroke(c4, EmptyBag) \sqsubseteq surf THEN <<c4, surf>>
           ELSE <<c4, Stroke(c4, surf)>>

\* drawPath(draw): the pair <<context, surface>> after the call
drawPath(comp, context, surf, draw) ==
  IF ~Has(draw, "path") \/ Len(draw.path) < 2 THEN <<context, surf>>
  ELSE LET c1 == SetStrokeStyle(context, draw, "color")
           c2 == SetLineWidth(c1, draw, WidthField(comp))
           c3 == MoveTo(BeginPath(c2), draw.path[1])
           c4 == LineToAll(c3, draw.path, 1)
       IN  <<c4, Stroke(c4, surf)>>

\* mutant of ShouldInsert: the length test is off by one (length > 0)
ShouldInsertAny(path) == Len(path) > 0

\* the condition of handleMouseUp under which the stroke is submitted
ShouldInsert(path) == Len(path) > 1

\* the object handed to supabase.from('drawings').insert(...)
InsertPayload(path, col, width) ==
  [path |-> path, color |-> col, linewidth |-> width]

(* ----------------------------------------------------------------- state *)

Init ==
  /\ mounted     = [c \in Clients |-> "none"]
  /\ isDrawing   = [c \in Clients |-> FALSE]
  /\ color       = [c \in Clients |-> InitialColor]
  /\ lineWidth   = [c \in Clients |-> InitialLineWidth]
  /\ currentPath = [c \in Clients |-> <<>>]
  /\ channelRef  = [c \in Clients |-> "null"]
  /\ ctx         = [c \in Clients |-> FreshContext]
  /\ surface     = [c \in Clients |-> EmptyBag]
  /\ inserts     = <<>>
  /\ drawings    = <<>>
  /\ feed        = [c \in Clients |-> {}]
  /\ clearFeed   = [c \in Clients |-> 0]
  /\ console     = 0
  /\ captured    = [c \in Clients |-> <<>>]
  /\ styleChanges = 0

\* mutant of Subscribed: removing the channel leaves its listeners attached
SubscribedAll == Clients

\* the clients whose channel is subscribed
Subscribed == {c \in Clients : mounted[c] # "none"}

(* --------------------------------------------------------------- actions *)

\* mutant of SubscribeFeed: the effect also asks for the rows already stored
SubscribeFeedReplay(rows) == DOMAIN rows

\* the rows a channel is notified of when it subscribes to postgres_changes
\* INSERT: the change feed carries later inserts only, and the effect reads
\* nothing from the table
SubscribeFeed(rows) == {}

\* first render and the mount effect: fresh component state, blank canvas,
\* channel created and subscribed; nothing is read from the drawings table
Mount(c, comp) ==
  /\ mounted[c] = "none"
  /\ mounted' = [mounted EXCEPT ![c] = comp]
  /\ feed' = [feed EXCEPT ![c] = SubscribeFeed(drawings)]
  /\ channelRef' = [channelRef EXCEPT ![c] = IF comp = "page" THEN "channel" ELSE "null"]
  /\ UNCHANGED <<isDrawing, color, lineWidth, currentPath, ctx, surface, inserts,
                 drawings, clearFeed, console, captured, styleChanges>>

\* the cleanup of the mount effect; the component's state and its canvas go away.
\* Requests already sent stay in flight: their continuation then writes to the
\* ref of a component that no longer exists.
Unmount(c) ==
  /\ mounted[c] # "none"
  /\ mounted' = [mounted EXCEPT ![c] = "none"]
  /\ channelRef' = [channelRef EXCEPT ![c] = "null"]
  /\ isDrawing' = [isDrawing EXCEPT ![c] = FALSE]
  /\ color' = [color EXCEPT ![c] = InitialColor]
  /\ lineWidth' = [lineWidth EXCEPT ![c] = InitialLineWidth]
  /\ currentPath' = [currentPath EXCEPT ![c] = <<>>]
  /\ ctx' = [ctx EXCEPT ![c] = FreshContext]
  /\ surface' = [surface EXCEPT ![c] = EmptyBag]
  /\ captured' = [captured EXCEPT ![c] = <<>>]
  /\ feed' = [feed EXCEPT ![c] = {}]
  /\ clearFeed' = [clearFeed EXCEPT ![c] = 0]
  /\ inserts' = [i \in DOMAIN inserts |->
                   IF inserts[i].client = c THEN [inserts[i] EXCEPT !.live = FALSE]
                   ELSE inserts[i]]
  /\ UNCHANGED <<drawings, console, styleChanges>>

\* onMouseDown
handleMouseDown(c, e) ==
  LET coords == getCoordinates(e) IN
  /\ mounted[c] # "none"
  /\ e = Position(1)
  /\ isDrawing' = [isDrawing EXCEPT ![c] = TRUE]
  /\ currentPath' = [currentPath EXCEPT ![c] = <<coords>>]
  /\ ctx' = [ctx EXCEPT ![c] = MoveTo(BeginPath(@), coords)]
  /\ captured' = [captured EXCEPT ![c] = <<coords>>]
  /\ UNCHANGED <<mounted, color, lineWidth, channelRef, surface, inserts, drawings,
                 feed, clearFeed, console, styleChanges>>

\* the context after the drawing calls of handleMouseMove
MoveContext(context, col, width, coords) ==
  LET style == [color |-> col, lineWidth |-> width] IN
  LineTo(SetLineWidth(SetStrokeStyle(context, style, "color"), style, "lineWidth"), coords)

\* mutant of handleMouseMove: the handler lacks its  if (!isDrawing) return
handleMouseMoveAlways(c, e) ==
  LET coords == getCoordinates(e) IN
  /\ mounted[c] # "none"
  /\ Len(captured[c]) < MaxPathLen
  /\ e = Position(Len(captured[c]) + 1)
  /\ BagCardinality(surface[c]) < MaxSurface
  /\ currentPath' = [currentPath EXCEPT ![c] = Append(@, coords)]
  /\ ctx' = [ctx EXCEPT ![c] = MoveContext(@, color[c], lineWidth[c], coords)]
  /\ surface' = [surface EXCEPT ![c] = Stroke(ctx'[c], @)]
  /\ captured' = [captured EXCEPT ![c] = Append(@, coords)]
  /\ UNCHANGED <<mounted, isDrawing, color, lineWidth, channelRef, inserts,
                 drawings, feed, clearFeed, console, styleChanges>>

\* onMouseMove
handleMouseMove(c, e) ==
  LET coords == getCoordinates(e) IN
  /\ mounted[c] # "none"
  /\ IF ~isDrawing[c] THEN UNCHANGED vars
     ELSE /\ Len(captured[c]) < MaxPathLen
          /\ e = Position(Len(captured[c]) + 1)
          /\ BagCardinality(surface[c]) < MaxSurface
          /\ currentPath' = [currentPath EXCEPT ![c] = Append(@, coords)]
          /\ ctx' = [ctx EXCEPT ![c] = MoveContext(@, color[c], lineWidth[c], coords)]
          /\ surface' = [surface EXCEPT ![c] = Stroke(ctx'[c], @)]
          /\ captured' = [captured EXCEPT ![c] = Append(@, coords)]
          /\ UNCHANGED <<mounted, isDrawing, color, lineWidth, channelRef, inserts,
                         drawings, feed, clearFeed, console, styleChanges>>

\* the requests issued so far: stored, failed and logged, or not yet returned
Issued == Len(drawings) + console + Len(inserts)

\* mutant of NewInsert: the request carries the initial color and width
NewInsertInitialStyle(c) ==
  [client    |-> c,
   live      |-> TRUE,
   payload   |-> InsertPayload(currentPath[c], InitialColor, InitialLineWidth)]

\* the request handleMouseUp sends; the body is serialised before any later event
NewInsert(c) ==
  [client    |-> c,
   live      |-> TRUE,
   payload   |-> InsertPayload(currentPath[c], color[c], lineWidth[c])]

\* onMouseUp and onMouseLeave, up to the await
handleMouseUp(c) ==
  /\ mounted[c] # "none"
  /\ isDrawing' = [isDrawing EXCEPT ![c] = FALSE]
  /\ captured' = [captured EXCEPT ![c] = <<>>]
  /\ IF ShouldInsert(currentPath[c])
     THEN /\ Issued < MaxInserts
          /\ inserts' = Append(inserts, NewInsert(c))
          /\ UNCHANGED currentPath
     ELSE /\ currentPath' = [currentPath EXCEPT ![c] = <<>>]
          /\ UNCHANGED inserts
  /\ UNCHANGED <<mounted, color, lineWidth, channelRef, ctx, surface, drawings,
                 feed, clearFeed, console, styleChanges>>

\* mutant of BufferAfterSubmit: the continuation leaves the buffer as it is
BufferKept(path) == path

\* the buffer after the continuation of handleMouseUp
BufferAfterSubmit(path) == <<>>

\* a sequence without its i-th element
Remove(seq, i) == [j \in 1..(Len(seq) - 1) |-> IF j < i THEN seq[j] ELSE seq[j + 1]]

\* currentPathRef.current = [] at the end of handleMouseUp; the ref of an
\* unmounted component is not the ref of the component mounted now
ClearBuffer(i) ==
  IF inserts[i].live
  THEN [currentPath EXCEPT ![inserts[i].client] = BufferAfterSubmit(@)]
  ELSE currentPath

\* mutant of StoreRow: the call also overwrites the latest row (an upsert
\* that matches it) besides adding the new one
StoreRowUpsert(rows, row) ==
  IF rows = <<>> THEN <<row>> ELSE Append([rows EXCEPT ![Len(rows)] = row], row)

\* supabase.from('drawings').insert(row): the table gains the row
StoreRow(rows, row) == Append(rows, row)

\* the insert succeeds: the backend stores the row and notifies every
\* subscribed client, the await returns without error and handleMouseUp
\* empties the buffer
InsertSucceeds(i) ==
  /\ i \in DOMAIN inserts
  /\ inserts' = Remove(inserts, i)
  /\ drawings' = StoreRow(drawings, inserts[i].payload)
  /\ feed' = [c \in Clients |->
                IF c \in Subscribed THEN feed[c] \cup {Len(drawings) + 1} ELSE feed[c]]
  /\ currentPath' = ClearBuffer(i)
  /\ UNCHANGED <<mounted, isDrawing, color, lineWidth, channelRef, ctx,
                 surface, clearFeed, console, captured, styleChanges>>

\* mutant of InsertFails: the failed request is sent again and the error is
\* not logged
InsertFailsRetry(i) ==
  /\ i \in DOMAIN inserts
  /\ inserts' = Append(Remove(inserts, i), inserts[i])
  /\ currentPath' = ClearBuffer(i)
  /\ UNCHANGED <<mounted, isDrawing, color, lineWidth, channelRef, ctx,
                 surface, drawings, feed, clearFeed, console, captured, styleChanges>>

\* the insert fails (network or validation error): the await returns the
\* error, handleMouseUp logs it and empties the buffer
InsertFails(i) ==
  /\ i \in DOMAIN inserts
  /\ inserts' = Remove(inserts, i)
  /\ console' = console + 1
  /\ currentPath' = ClearBuffer(i)
  /\ UNCHANGED <<mounted, isDrawing, color, lineWidth, channelRef, ctx,
                 surface, drawings, feed, clearFeed, captured, styleChanges>>

\* the postgres_changes INSERT handler
OnInsert(c, n) ==
  /\ n \in feed[c]
  /\ LET r == drawPath(mounted[c], ctx[c], surface[c], drawings[n]) IN
       /\ ctx' = [ctx EXCEPT ![c] = r[1]]
       /\ surface' = [surface EXCEPT ![c] = r[2]]
  /\ feed' = [feed EXCEPT ![c] = @ \ {n}]
  /\ UNCHANGED <<mounted, isDrawing, color, lineWidth, currentPath, channelRef,
                 inserts, drawings, clearFeed, console, captured, styleChanges>>

\* clearCanvasLocal (page.tsx)
clearCanvasLocal(surf) == ClearRect(surf)

\* the broadcast 'clear' handler (page.tsx only)
OnClear(c) ==
  /\ clearFeed[c] > 0
  /\ clearFeed' = [clearFeed EXCEPT ![c] = @ - 1]
  /\ surface' = [surface EXCEPT ![c] = clearCanvasLocal(@)]
  /\ UNCHANGED <<mounted, isDrawing, color, lineWidth, currentPath, channelRef, ctx,
                 inserts, drawings, feed, console, captured, styleChanges>>

\* the clients a 'clear' broadcast sent by c is delivered to
ClearReceivers(c) ==
  IF mounted[c] = "page" /\ channelRef[c] # "null"
  THEN {d \in Clients \ {c} : mounted[d] = "page"}
  ELSE {}

\* the Clear button
clearCanvas(c) ==
  /\ mounted[c] # "none"
  /\ \A d \in ClearReceivers(c) : clearFeed[d] < MaxBroadcasts
  /\ surface' = [surface EXCEPT ![c] = clearCanvasLocal(@)]
  /\ clearFeed' = [d \in Clients |->
                     IF d \in ClearReceivers(c) THEN clearFeed[d] + 1 ELSE clearFeed[d]]
  /\ UNCHANGED <<mounted, isDrawing, color, lineWidth, currentPath, channelRef, ctx,
                 inserts, drawings, feed, console, captured, styleChanges>>

\* the color picker
setColor(c, v) ==
  /\ mounted[c] # "none"
  /\ v # color[c]
  /\ styleChanges < MaxStyleChanges
  /\ styleChanges' = styleChanges + 1
  /\ color' = [color EXCEPT ![c] = v]
  /\ UNCHANGED <<mounted, isDrawing, lineWidth, currentPath, channelRef, ctx, surface,
                 inserts, drawings, feed, clearFeed, console, captured>>

\* the width slider
setLineWidth(c, v) ==
  /\ mounted[c] # "none"
  /\ v # lineWidth[c]
  /\ styleChanges < MaxStyleChanges
  /\ styleChanges' = styleChanges + 1
  /\ lineWidth' = [lineWidth EXCEPT ![c] = v]
  /\ UNCHANGED <<mounted, isDrawing, color, currentPath, channelRef, ctx, surface,
                 inserts, drawings, feed, clearFeed, console, captured>>

\* two tabs; the drawer keeps the initial color and width
Next ==
  \/ \E c \in Clients, comp \in Components : Mount(c, comp)
  \/ \E c \in Clients : Unmount(c)
  \/ \E c \in Drawers, e \in MouseEvents : handleMouseDown(c, e)
  \/ \E c \in Drawers, e \in MouseEvents : handleMouseMove(c, e)
  \/ \E c \in Drawers : handleMouseUp(c)
  \/ \E i \in 1..MaxInserts : InsertSucceeds(i)
  \/ \E i \in 1..MaxInserts : InsertFails(i)
  \/ \E c \in Clients, n \in 1..MaxInserts : OnInsert(c, n)
  \/ \E c \in Clients : OnClear(c)
  \/ \E c \in Clients : clearCanvas(c)

Spec == Init /\ [][Next]_vars

\* one tab whose user also moves the color picker and the width slider
NextStyle ==
  \/ \E c \in Drawers, comp \in Components : Mount(c, comp)
  \/ \E c \in Drawers : Unmount(c)
  \/ \E c \in Drawers, e \in MouseEvents : handleMouseDown(c, e)
  \/ \E c \in Drawers, e \in MouseEvents : handleMouseMove(c, e)
  \/ \E c \in Drawers : handleMouseUp(c)
  \/ \E i \in 1..MaxInserts : InsertSucceeds(i)
  \/ \E i \in 1..MaxInserts : InsertFails(i)
  \/ \E c \in Drawers, n \in 1..MaxInserts : OnInsert(c, n)
  \/ \E c \in Drawers : clearCanvas(c)
  \/ \E c \in Drawers, v \in ColorValues : setColor(c, v)
  \/ \E c \in Drawers, v \in WidthValues : setLineWidth(c, v)

SpecStyle == Init /\ [][NextStyle]_vars

\* the points of the pointer trajectory, as a path of n points
Trajectory(n) == [k \in 1..n |-> getCoordinates(Position(k))]

\* a sequence back to front
Reverse(seq) == [k \in 1..Len(seq) |-> seq[Len(seq) + 1 - k]]

\* the rows another writer of the table can store: the handler casts
\* payload.new to Draw without looking at it, so the path may be missing,
\* empty, a single point, or any sequence of points
ForeignRows ==
  {[color |-> InitialColor, linewidth |-> InitialLineWidth]}
    \cup {InsertPayload(path, InitialColor, InitialLineWidth) :
            path \in {Trajectory(n) : n \in 0..MaxPathLen}
                       \cup {Reverse(Trajectory(MaxPathLen))}}

\* another writer stores a row in the drawings table; the backend notifies
\* every subscribed client
ForeignInsert(row) ==
  /\ Issued < MaxInserts
  /\ drawings' = StoreRow(drawings, row)
  /\ feed' = [c \in Clients |->
                IF c \in Subscribed THEN feed[c] \cup {Len(drawings) + 1} ELSE feed[c]]
  /\ UNCHANGED <<mounted, isDrawing, color, lineWidth, currentPath, channelRef, ctx,
                 surface, inserts, clearFeed, console, captured, styleChanges>>

\* the clients of the watching-only deployment
Watchers == {"B"}

\* one tab that only watches, and a table other programs write to
NextDraw ==
  \/ \E c \in Watchers, comp \in Components : Mount(c, comp)
  \/ \E c \in Watchers : Unmount(c)
  \/ \E row \in ForeignRows : ForeignInsert(row)
  \/ \E c \in Watchers, n \in 1..MaxInserts : OnInsert(c, n)
  \/ \E c \in Watchers : clearCanvas(c)

SpecDraw == Init /\ [][NextDraw]_vars

(* ================================================================ claims *)

\* this step issues an insert request
Issues == Len(inserts') > Len(inserts)

\* the request this step issues
NewRequest == inserts'[Len(inserts')]

\* the stroke a row of the table describes
StrokeOf(row) == [path |-> row.path, color |-> row.color, width |-> row.linewidth]

\* the number of strokes on a surface that run along the given path
RenderingsOf(surf, path) ==
  BagCardinality([op \in {o \in BagToSet(surf) : o.path = path} |-> surf[op]])

\* C1: no insert request ever carries a path of fewer than 2 points, no
\* stored row does, and a release or pointer-leave that finds a capture
\* without any pointer-move, or an empty buffer, issues no insert.
C1_NoShortInsert ==
  [][ /\ \A i \in DOMAIN inserts' : Len(inserts'[i].payload.path) >= 2
      /\ \A n \in DOMAIN drawings' : Len(drawings'[n].path) >= 2
      /\ \A c \in Clients :
           (handleMouseUp(c) /\ (Len(captured[c]) = 1 \/ Len(currentPath[c]) = 0))
             => inserts' = inserts ]_vars

\* a pointer-down was released without any move and nothing was ever submitted
C1_Witness ==
  /\ mounted["A"] # "none"
  /\ ~isDrawing["A"]
  /\ Len(ctx["A"].path) = 1
  /\ currentPath["A"] = <<>>
  /\ Issued = 0

\* C2: the path submitted on the release of a capture (pointer-down and
\* n >= 1 pointer-moves) is exactly the coordinates of those events in event
\* order, whatever earlier submissions completed during the capture.
C2_SubmittedPathIsCapture ==
  [][ \A c \in Clients :
        (handleMouseUp(c) /\ isDrawing[c] /\ Len(captured[c]) >= 2 /\ Issues)
          => NewRequest.payload.path = captured[c] ]_vars

\* C3: an insert is issued only by the release that ends a capture; a
\* pointer-up or pointer-leave that finds the component Idle issues none.
C3_InsertOnlyOnRelease ==
  [][ \A c \in Clients : (handleMouseUp(c) /\ Issues) => isDrawing[c] ]_vars

\* C4: a client that handles the insert notification of a stored stroke
\* paints exactly that path in that color and that width, whatever it
\* painted before and in whatever order notifications arrive.
C4_ReceiverRendersIdentical ==
  [][ \A c \in Clients, n \in DOMAIN drawings :
        OnInsert(c, n)
          => surface'[c] = surface[c] (+) SetToBag({StrokeOf(drawings[n])}) ]_vars

\* C5: Clear blanks the surface of the client that invokes it and reaches
\* every other client that listens for the clear broadcast, and a client
\* that handles the broadcast has a blank surface right after.
C5_ClearBlanksEveryone ==
  [][ /\ \A c \in Clients :
           clearCanvas(c)
             => /\ surface'[c] = EmptyBag
                /\ \A d \in Clients \ {c} :
                     mounted[d] = "page" => clearFeed'[d] = clearFeed[d] + 1
      /\ \A d \in Clients : OnClear(d) => surface'[d] = EmptyBag ]_vars

\* C6: the stored strokes only grow: every step keeps every stored row as
\* it is, so the history after a Clear is the history before it.
C6_HistoryOnlyGrows ==
  [][ /\ Len(drawings') >= Len(drawings)
      /\ \A n \in DOMAIN drawings : drawings'[n] = drawings[n] ]_vars

\* strokes are stored and a clear broadcast is on its way
C6_Witness ==
  /\ Len(drawings) > 0
  /\ \E c \in Clients : clearFeed[c] > 0

C8_NoDeduplication ==
  [][ \A c \in Clients, n \in DOMAIN drawings :
        OnInsert(c, n)
          => /\ BagCardinality(surface'[c]) = BagCardinality(surface[c]) + 1
             /\ RenderingsOf(surface'[c], drawings[n].path)
                  = RenderingsOf(surface[c], drawings[n].path) + 1 ]_vars

\* a client that paints nothing itself holds the same stroke twice, from
\* two notifications with the same payload
C8_Witness ==
  \E op \in BagToSet(surface["B"]) : CopiesIn(op, surface["B"]) >= 2

\* C9: when a submission fails the error is logged once, the failed request
\* is gone and no request is issued in its place, nothing is stored, the
\* surfaces keep what was painted, and the buffer of the component that
\* submitted is emptied exactly as a success empties it.
C9_FailureLoggedNoRetryNoRollback ==
  [][ \A i \in DOMAIN inserts :
        InsertFails(i)
          => /\ console' = console + 1
             /\ inserts' = Remove(inserts, i)
             /\ drawings' = drawings
             /\ surface' = surface
             /\ ctx' = ctx
             /\ currentPath' = ClearBuffer(i)
             /\ inserts[i].live => currentPath'[inserts[i].client] = <<>> ]_vars

\* a failure was logged, nothing was stored or is in flight, and the
\* optimistic rendering of the failed stroke is still on the surface
C9_Witness ==
  /\ console > 0
  /\ drawings = <<>>
  /\ inserts = <<>>
  /\ currentPath["A"] = <<>>
  /\ surface["A"] # EmptyBag

\* the points of a sequence
Points(seq) == {seq[k] : k \in DOMAIN seq}

\* C10: while Capturing, a pointer-move appends its coordinate to the buffer
\* and, when the buffer held a point, paints in the selected color and width
\* one stroke that runs through points of this capture only and ends with
\* the segment from the previously buffered point to the new one, also when
\* a notification or a clear broadcast was handled since the last move.
C10_MoveRendersBufferedSegment ==
  [][ \A c \in Clients, e \in MouseEvents :
        (handleMouseMove(c, e) /\ isDrawing[c])
          => /\ currentPath'[c] = Append(currentPath[c], getCoordinates(e))
             /\ Len(currentPath[c]) >= 1
                  => \E op \in BagToSet(surface'[c]) :
                       /\ surface'[c] = surface[c] (+) SetToBag({op})
                       /\ op.color = color[c]
                       /\ op.width = lineWidth[c]
                       /\ Points(op.path) \subseteq Points(captured'[c])
                       /\ Len(op.path) >= 2
                       /\ op.path[Len(op.path) - 1] = currentPath[c][Len(currentPath[c])]
                       /\ op.path[Len(op.path)] = getCoordinates(e) ]_vars

\* the segments of a polyline, in drawing order
Segments(path) == [k \in 1..(Len(path) - 1) |-> <<path[k], path[k + 1]>>]

\* C11: drawPath applied to a payload whose path has n >= 2 points paints one
\* stroke whose segments are (P[1],P[2]), ..., (P[n-1],P[n]) in that order;
\* applied to a payload whose path is missing or has fewer than 2 points it
\* leaves the surface and the context as they are.
C11_DrawPathRendersSegments ==
  [][ \A c \in Clients, n \in DOMAIN drawings :
        OnInsert(c, n)
          => IF Has(drawings[n], "path") /\ Len(drawings[n].path) >= 2
             THEN \E op \in BagToSet(surface'[c]) :
                    /\ surface'[c] = surface[c] (+) SetToBag({op})
                    /\ Segments(op.path) = Segments(drawings[n].path)
                    /\ ctx'[c].path = drawings[n].path
             ELSE /\ surface'[c] = surface[c]
                  /\ ctx'[c] = ctx[c] ]_vars

\* a client painted a stored stroke of 3 points and then handled the
\* notification of a row without a path, which painted nothing
C11_Witness ==
  /\ Len(drawings) = 2
  /\ Has(drawings[1], "path") /\ Len(drawings[1].path) = 3
  /\ ~Has(drawings[2], "path")
  /\ feed["B"] = {}
  /\ BagCardinality(surface["B"]) = 1
  /\ \E op \in BagToSet(surface["B"]) : op.path = drawings[1].path

\* C12: mounting subscribes the client, so that each row stored from then
\* on is notified to it once; unmounting drops the channel reference and
\* every notification and broadcast on its way; while a client stays
\* unmounted no step changes its surface or puts a notification or a
\* broadcast on its way to it; and a Clear of a component that holds no
\* channel puts no broadcast on its way to anyone.
C12_SubscriptionFollowsMount ==
  [][ /\ \A c \in Clients :
           /\ (mounted[c] = "none" /\ mounted'[c] # "none") => c \in Subscribed'
           /\ (mounted[c] # "none" /\ Len(drawings') > Len(drawings))
                => feed'[c] = feed[c] \cup {Len(drawings')}
           /\ mounted'[c] = "none"
                => /\ c \notin Subscribed'
                   /\ channelRef'[c] = "null"
                   /\ feed'[c] = {}
                   /\ clearFeed'[c] = 0
           /\ (mounted[c] = "none" /\ mounted'[c] = "none")
                => surface'[c] = surface[c]
           /\ (clearCanvas(c) /\ channelRef[c] = "null") => clearFeed' = clearFeed
      /\ \A c \in Clients, n \in DOMAIN drawings :
           OnInsert(c, n) => mounted[c] # "none" ]_vars

\* the drawer's tab was closed with a submission in flight, a stroke is
\* stored, and its notification is on its way to the other tab only
C12_Witness ==
  /\ mounted["A"] = "none"
  /\ mounted["B"] # "none"
  /\ Len(drawings) = 1
  /\ Len(inserts) = 1 /\ ~inserts[1].live
  /\ feed["A"] = {}
  /\ feed["B"] = {1}

\* C13: a submission in flight blocks nothing: a release that ends a capture
\* of 2 or more points while an earlier submission has not returned issues
\* the submission of that capture, with all its points, at once.
C13_InFlightDoesNotBlock ==
  [][ \A c \in Clients :
        (handleMouseUp(c) /\ isDrawing[c] /\ Len(captured[c]) >= 2 /\ inserts # <<>>)
          => /\ Issues
             /\ Len(NewRequest.payload.path) >= 2 ]_vars

\* C14: a pointer-move handled while no capture is in progress changes
\* nothing: the buffer, the canvas (context and surface) and the capture
\* state stay as they are and no submission is issued.
C14_IdleMoveChangesNothing ==
  [][ \A c \in Clients, e \in MouseEvents :
        (handleMouseMove(c, e) /\ ~isDrawing[c])
          => /\ currentPath' = currentPath
             /\ surface' = surface
             /\ ctx' = ctx
             /\ isDrawing' = isDrawing
             /\ inserts' = inserts ]_vars

\* the component is Idle with the points of the last stroke still in the
\* buffer and on the canvas: a move that was not ignored would extend both
C14_Witness ==
  /\ mounted["A"] # "none"
  /\ ~isDrawing["A"]
  /\ Len(currentPath["A"]) >= 2
  /\ ctx["A"].path = currentPath["A"]
  /\ surface["A"] # EmptyBag
  /\ \E e \in MouseEvents : ENABLED handleMouseMove("A", e)

\* the submissions of the mounted component of c that have not returned
InFlight(c) == {i \in DOMAIN inserts : inserts[i].client = c /\ inserts[i].live}

\* C15: whenever a component is Idle and none of its submissions is in
\* flight its path buffer is empty; a non-empty buffer means a capture in
\* progress or a submission that has not returned.
C15_IdleBufferEmpty ==
  \A c \in Clients :
    (~isDrawing[c] /\ InFlight(c) = {}) => currentPath[c] = <<>>

\* a stroke was captured and submitted, its submission has returned, and
\* the component is Idle with the stroke still in the context's path
C15_Witness ==
  /\ mounted["A"] # "none"
  /\ ~isDrawing["A"]
  /\ inserts = <<>>
  /\ Len(drawings) + console >= 1
  /\ feed["A"] # {}
  /\ Len(ctx["A"].path) >= 2
  /\ currentPath["A"] = <<>>

\* C16: a Clear invoked or a clear broadcast handled during a capture
\* leaves the capture state and the buffer as they are, and the release
\* that follows it (the capture has moves and the surface is still blank)
\* submits every point captured since the pointer-down.
C16_ClearKeepsCapture ==
  [][ \A c \in Clients :
        /\ ((clearCanvas(c) \/ OnClear(c)) /\ isDrawing[c])
             => /\ isDrawing'[c]
                /\ currentPath'[c] = currentPath[c]
                /\ inserts' = inserts
        /\ (handleMouseUp(c) /\ isDrawing[c] /\ Len(captured[c]) >= 2
               /\ surface[c] = EmptyBag)
             => /\ Issues
                /\ NewRequest.payload.path = captured[c] ]_vars

\* C17: the request a release issues carries the color and the width
\* selected at that moment, and the row stored for it is that payload;
\* moving the color picker or the width slider changes the selected value
\* only: the buffer, the capture state, the canvas and the requests stay
\* as they are.
C17_StyleAtRelease ==
  [][ /\ \A c \in Clients :
           (handleMouseUp(c) /\ Issues)
             => /\ NewRequest.payload.color = color[c]
                /\ NewRequest.payload.linewidth = lineWidth[c]
      /\ \A i \in DOMAIN inserts :
           InsertSucceeds(i) => drawings'[Len(drawings')] = inserts[i].payload
      /\ \A c \in Clients :
           ((\E v \in ColorValues : setColor(c, v))
              \/ (\E v \in WidthValues : setLineWidth(c, v)))
             => /\ currentPath' = currentPath
                /\ isDrawing' = isDrawing
                /\ surface' = surface
                /\ ctx' = ctx
                /\ inserts' = inserts
                /\ drawings' = drawings ]_vars

\* a stroke painted in the initial color during its capture is in flight
\* with another color or width: the control was moved before the release
C17_Witness ==
  \E i \in DOMAIN inserts :
    /\ inserts[i].live
    /\ \/ inserts[i].payload.color # InitialColor
       \/ inserts[i].payload.linewidth # InitialLineWidth
    /\ \E op \in BagToSet(surface[inserts[i].client]) :
         /\ op.path = inserts[i].payload.path
         /\ op.color = InitialColor
         /\ op.width = InitialLineWidth

====
